---------------------------- MODULE Spec2Model ----------------------------
(***************************************************************************)
(* Model of src/main.py, the Minecraft mod translation helper:             *)
(*   - the entry scan and the key comparison of process_jar_file,          *)
(*   - process_jar_file as a whole, acting on a mod's output directory,    *)
(*   - process_all_jars and main_cli (the batch run),                      *)
(*   - MinecraftTranslationApp.start_processing and its worker threads.    *)
(* Strings are sequences of one-character strings, so that str.endswith is *)
(* a real suffix test.  A JSON object is a sequence of key/value records   *)
(* with distinct keys (a Python dict, in insertion order).                 *)
(***************************************************************************)
EXTENDS Integers, Sequences, FiniteSets, TLC

VARIABLES
    \* the entry scan of process_jar_file (lines 76-88)
    file_list, target_lang, scan_i, en_us_path, target_lang_path,
    \* the key comparison of process_jar_file (lines 117-121)
    en_us_data, target_lang_data, cmp_i, missing_translations,
    \* one mod's output directory and the last process_jar_file call on it
    mod_jar, mod_dir, call,
    \* a batch run: main_cli, or start_processing and its one worker thread
    args, input_dir, output_dir, pc, jar_files, idx, invoked,
    progress_var, status_var, log, exit_code,
    \* the interactive front end: worker threads, "Start Processing" clicks,
    \* callbacks scheduled with after(), the log pane, and which thread has
    \* changed which piece of UI state
    threads, clicks, after_queue, text_widget, touched

scanVars == <<file_list, target_lang, scan_i, en_us_path, target_lang_path>>
diffVars == <<en_us_data, target_lang_data, cmp_i, missing_translations>>
jarVars == <<mod_jar, mod_dir, call>>
runVars == <<pc, jar_files, idx, invoked, log, exit_code>>
batchVars == <<args, input_dir, output_dir, runVars, progress_var, status_var>>
guiVars == <<threads, clicks, after_queue, text_widget, touched>>
vars == <<scanVars, diffVars, jarVars, batchVars, guiVars>>

----------------------------------------------------------------------------
(* Bounds *)

\* longest entry listing drawn for the entry scan
ScanMaxEntries == 3
\* keys and values of the mappings drawn for the key comparison
DiffKeys == 2
DiffVals == 2
\* longest entry listing of the archives given to process_jar_file
JarMaxEntries == 2
\* longest listing of an input directory with archives of different kinds
MaxJars == 2
\* longest listing of an input directory holding alike archives
MaxAlikeJars == 50
\* most "Start Processing" clicks in one session of the front end
MaxStarts == 2

----------------------------------------------------------------------------
(* Strings *)

JsonExt == <<".", "j", "s", "o", "n">>
EnUs == <<"e", "n", "_", "u", "s">>
RuRu == <<"r", "u", "_", "r", "u">>
FrFr == <<"f", "r", "_", "f", "r">>
EnUsJson == EnUs \o JsonExt
DiffJson == <<"d", "i", "f", "f">> \o JsonExt

\* f'{target_lang}.json'
LangJson(lang) == lang \o JsonExt

\* str.endswith
EndsWith(s, suffix) ==
    /\ Len(suffix) <= Len(s)
    /\ SubSeq(s, Len(s) - Len(suffix) + 1, Len(s)) = suffix

\* None, for a path that the scan has not set (no entry name is empty)
NoPath == <<>>

\* entry names an archive may list
ScanNames ==
    { <<"a", "/">> \o EnUsJson,
      <<"b", "/">> \o EnUsJson,
      <<"x">> \o EnUsJson,
      <<"a", "/">> \o LangJson(RuRu),
      <<"b", "/">> \o LangJson(RuRu),
      <<"a", "/">> \o LangJson(FrFr),
      <<"m", ".", "c">> }

\* target language codes given to the scan: --lang accepts any string
ScanLangs == {RuRu, FrFr, EnUs}

SeqsUpTo(S, n) == UNION { [1..k -> S] : k \in 0..n }

----------------------------------------------------------------------------
(* The entry scan: one iteration of the loop at lines 84-88 *)

ScanStepNoElif(paths, file_path, lang) ==
    LET p1 == IF EndsWith(file_path, EnUsJson)
              THEN [paths EXCEPT !.en_us_path = file_path]
              ELSE paths
    IN  IF EndsWith(file_path, LangJson(lang))
        THEN [p1 EXCEPT !.target_lang_path = file_path]
        ELSE p1

ScanStep(paths, file_path, lang) ==
    IF EndsWith(file_path, EnUsJson)
    THEN [paths EXCEPT !.en_us_path = file_path]
    ELSE IF EndsWith(file_path, LangJson(lang))
         THEN [paths EXCEPT !.target_lang_path = file_path]
         ELSE paths

NoPaths == [en_us_path |-> NoPath, target_lang_path |-> NoPath]

\* the whole loop over jar.namelist()
RECURSIVE ScanFrom(_, _, _, _)
ScanFrom(paths, names, i, lang) ==
    IF i > Len(names) THEN paths
    ELSE ScanFrom(ScanStep(paths, names[i], lang), names, i + 1, lang)

ScanEntries(names, lang) == ScanFrom(NoPaths, names, 1, lang)

----------------------------------------------------------------------------
(* Mappings and the key comparison (lines 118-121) *)

Keys(m) == { m[i].key : i \in DOMAIN m }

\* key in d
HasKey(m, k) == \E i \in DOMAIN m : m[i].key = k

\* d[key] = value on a dict: replace in place, or append a new key
DictSet(m, k, v) ==
    IF HasKey(m, k)
    THEN [i \in DOMAIN m |-> IF m[i].key = k THEN [key |-> k, value |-> v] ELSE m[i]]
    ELSE Append(m, [key |-> k, value |-> v])

\* one iteration of `for key, value in en_us_data.items()`
CompareStepInverted(missing, item, target) ==
    IF HasKey(target, item.key)
    THEN DictSet(missing, item.key, item.value)
    ELSE missing

CompareStep(missing, item, target) ==
    IF ~HasKey(target, item.key)
    THEN DictSet(missing, item.key, item.value)
    ELSE missing

RECURSIVE CompareFrom(_, _, _, _)
CompareFrom(missing, base, i, target) ==
    IF i > Len(base) THEN missing
    ELSE CompareFrom(CompareStep(missing, base[i], target), base, i + 1, target)

MissingTranslations(base, target) == CompareFrom(<<>>, base, 1, target)

\* all dicts with keys in 1..nk (distinct, any order) and values in 1..nv
Mappings(nk, nv) ==
    { m \in SeqsUpTo([key : 1..nk, value : 1..nv], nk) :
        \A i, j \in DOMAIN m : i # j => m[i].key # m[j].key }

----------------------------------------------------------------------------
(* Archives and the output directory of one mod *)

KV(k, v) == [key |-> k, value |-> v]

\* the bytes of an archive entry or of a file: a JSON object, or bytes that
\* json.loads rejects
Obj(m) == [json |-> TRUE, data |-> m]
BadJson == [json |-> FALSE, data |-> <<>>]

\* json.dump(missing_translations, f, ensure_ascii=False, indent=2) writes the
\* object with its keys in the dict's order
JsonDump(m) == Obj(m)

SampleBytes ==
    { BadJson,
      Obj(<<>>),
      Obj(<<KV(1, 1)>>),
      Obj(<<KV(1, 9)>>),
      Obj(<<KV(1, 1), KV(2, 2)>>) }

EnEntryName == <<"a", "/">> \o EnUsJson
RuEntryName == <<"a", "/">> \o LangJson(RuRu)
FrEntryName == <<"a", "/">> \o LangJson(FrFr)
ClassEntryName == <<"m", ".", "c">>

JarEntryPool ==
    [name : {EnEntryName, RuEntryName, FrEntryName}, bytes : SampleBytes]
        \cup {[name |-> ClassEntryName, bytes |-> BadJson]}

\* an archive zipfile.ZipFile cannot open
CorruptJar == [corrupt |-> TRUE, entries |-> <<>>]

JarArchives ==
    {CorruptJar} \cup
    { [corrupt |-> FALSE, entries |-> e] :
        e \in { x \in SeqsUpTo(JarEntryPool, JarMaxEntries) :
                  \A i, j \in DOMAIN x : i # j => x[i].name # x[j].name } }

\* target language codes given to process_jar_file
JarLangs == {RuRu, FrFr}

\* jar.namelist()
NameList(archive) == [i \in DOMAIN archive.entries |-> archive.entries[i].name]

\* jar.read(name): the last entry of that name
JarRead(archive, name) ==
    LET idxs == { i \in DOMAIN archive.entries : archive.entries[i].name = name }
        last == CHOOSE i \in idxs : \A j \in idxs : j <= i
    IN  archive.entries[last].bytes

NoFiles == <<>>
NoDir == [exists |-> FALSE, files |-> NoFiles]

\* os.makedirs(mod_output_dir, exist_ok=True)
MakeDirs(dir) == IF dir.exists THEN dir ELSE [exists |-> TRUE, files |-> NoFiles]

\* shutil.rmtree(mod_output_dir)
RmTree(dir) == NoDir

\* with open(path, 'wb') as f: f.write(content)
WriteFile(dir, name, bytes) ==
    [dir EXCEPT !.files =
        [n \in (DOMAIN dir.files) \cup {name} |->
            IF n = name THEN bytes ELSE dir.files[n]]]

\* what an environment can make fail in one call: creating the directory
\* (line 69), or opening one of the three output files for writing
JarFaults == {"none", "makedirs", "write_en", "write_target", "write_diff"}

JarResult(d, r, l) == [dir |-> d, raised |-> r, logs |-> l]

\* the except clause at lines 137-138
Caught(d, l) == JarResult(d, FALSE, l \o <<"error: Error processing">>)

\* lines 123-131, once both mappings are loaded
AfterCompareAlwaysWrites(dir, missing, fault) ==
    IF fault = "write_diff"
    THEN Caught(dir, <<"info: Found missing translations">>)
    ELSE JarResult(WriteFile(dir, DiffJson, JsonDump(missing)), FALSE,
                   <<"info: Found missing translations", "info: Finished processing">>)

AfterCompareNeverPrunes(dir, missing, fault) ==
    IF missing # <<>>
    THEN IF fault = "write_diff"
         THEN Caught(dir, <<"info: Found missing translations">>)
         ELSE JarResult(WriteFile(dir, DiffJson, JsonDump(missing)), FALSE,
                        <<"info: Found missing translations", "info: Finished processing">>)
    ELSE JarResult(dir, FALSE,
                   <<"info: All keys are translated", "info: Finished processing">>)

AfterCompare(dir, missing, fault) ==
    IF missing # <<>>
    THEN IF fault = "write_diff"
         THEN Caught(dir, <<"info: Found missing translations">>)
         ELSE JarResult(WriteFile(dir, DiffJson, JsonDump(missing)), FALSE,
                        <<"info: Found missing translations", "info: Finished processing">>)
    ELSE JarResult(RmTree(dir), FALSE,
                   <<"info: All keys are translated", "info: Finished processing">>)

\* lines 107-133, once en_us.json is written and loaded
AfterEnglish(dir, archive, lang, paths, en_data, fault) ==
    IF paths.target_lang_path # NoPath
    THEN LET content == JarRead(archive, paths.target_lang_path)
             l == <<"info: Extracting target">>
         IN  IF fault = "write_target" THEN Caught(dir, l)
             ELSE LET d == WriteFile(dir, LangJson(lang), content)
                  IN  IF ~content.json THEN Caught(d, l)
                      ELSE LET r == AfterCompare(d,
                                      MissingTranslations(en_data, content.data), fault)
                           IN  JarResult(r.dir, r.raised, l \o r.logs)
    ELSE JarResult(dir, FALSE,
                   <<"warning: target language file not found", "info: Finished processing">>)

\* process_jar_file(jar_path, output_dir, target_lang), on the directory
\* output_dir/mod_name
ProcessJar(dir, archive, lang, fault) ==
    IF fault = "makedirs" THEN JarResult(dir, TRUE, <<>>)
    ELSE
    LET d1 == MakeDirs(dir)
        l1 == <<"info: Processing mod">>
    IN  IF archive.corrupt THEN Caught(d1, l1)
        ELSE
        LET paths == ScanEntries(NameList(archive), lang)
        IN  IF paths.en_us_path = NoPath
            THEN JarResult(RmTree(d1), FALSE, l1 \o <<"warning: en_us.json not found">>)
            ELSE
            LET content == JarRead(archive, paths.en_us_path)
                l2 == l1 \o <<"info: Extracting en_us">>
            IN  IF fault = "write_en" THEN Caught(d1, l2)
                ELSE
                LET d2 == WriteFile(d1, EnUsJson, content)
                IN  IF ~content.json THEN Caught(d2, l2)
                    ELSE LET r == AfterEnglish(d2, archive, lang, paths,
                                               content.data, fault)
                         IN  JarResult(r.dir, r.raised, l2 \o r.logs)

----------------------------------------------------------------------------
(* Python float arithmetic, for int((idx + 1) / len(jar_files) * 100) at   *)
(* line 175.  A positive double is [m, e]: m the 53 bits of its            *)
(* significand, most significant first, e the exponent of the last bit.    *)

DoubleBits == 53

RECURSIVE BitsToInt(_)
BitsToInt(bits) ==
    IF bits = <<>> THEN 0
    ELSE 2 * BitsToInt(SubSeq(bits, 1, Len(bits) - 1)) + bits[Len(bits)]

RECURSIVE IntToBits(_)
IntToBits(x) == IF x = 0 THEN <<>> ELSE IntToBits(x \div 2) \o <<x % 2>>

\* bits + 1: the last 0 becomes 1 and the 1s after it become 0
Increment(bits) ==
    LET zeros == { i \in DOMAIN bits : bits[i] = 0 }
    IN  IF zeros = {} THEN <<1>> \o [i \in DOMAIN bits |-> 0]
        ELSE LET z == CHOOSE i \in zeros : \A j \in zeros : j <= i
             IN  [i \in DOMAIN bits |->
                    IF i < z THEN bits[i] ELSE IF i = z THEN 1 ELSE 0]

\* round to nearest, ties to even: bits holds at least 53 bits and starts
\* with 1, e is the exponent of its last bit, sticky says that the exact
\* value has more non-zero bits below
RoundToDouble(bits, e, sticky) ==
    LET L == Len(bits)
        keep == SubSeq(bits, 1, DoubleBits)
        rest == SubSeq(bits, DoubleBits + 1, L)
        guard == rest # <<>> /\ rest[1] = 1
        low == sticky \/ \E i \in 2..Len(rest) : rest[i] = 1
        up == guard /\ (low \/ keep[DoubleBits] = 1)
        m == IF up THEN Increment(keep) ELSE keep
    IN  IF Len(m) > DoubleBits
        THEN [m |-> SubSeq(m, 1, DoubleBits), e |-> e + (L - DoubleBits) + 1]
        ELSE [m |-> m, e |-> e + (L - DoubleBits)]

\* the least p with k * 2^p >= n
RECURSIVE LeadShift(_, _)
LeadShift(k, n) == IF k >= n THEN 0 ELSE 1 + LeadShift(2 * k, n)

RECURSIVE Pow2(_)
Pow2(p) == IF p = 0 THEN 1 ELSE 2 * Pow2(p - 1)

\* the w lowest bits of q
BitsOf(q, w) == [i \in 1..w |-> (q \div Pow2(w - i)) % 2]

\* cnt * w more bits of r / n, for r < n, and what is left
LongDiv(r, n, cnt, w) ==
    LET st[i \in 0..cnt] ==
            IF i = 0 THEN [bits |-> <<>>, rem |-> r]
            ELSE LET prev == st[i - 1]
                     t == prev.rem * Pow2(w)
                 IN  [bits |-> prev.bits \o BitsOf(t \div n, w), rem |-> t % n]
    IN  st[cnt]

\* k / n on ints, for 1 <= k <= n: the double nearest to the quotient
FloatDiv(k, n) ==
    LET p == LeadShift(k, n)
        d == LongDiv(k * Pow2(p) - n, n, 5, 11)
    IN  RoundToDouble(<<1>> \o d.bits, 0 - p - Len(d.bits), d.rem # 0)

\* bits * c, w bits at a time, carrying from the last bits up
MulBits(bits, c, w) ==
    LET L == Len(bits)
        cnt == (L + w - 1) \div w
        st[j \in 0..cnt] ==
            IF j = 0 THEN [bits |-> <<>>, carry |-> 0]
            ELSE LET prev == st[j - 1]
                     hi == L - (j - 1) * w
                     lo == IF hi - w + 1 < 1 THEN 1 ELSE hi - w + 1
                     t == BitsToInt(SubSeq(bits, lo, hi)) * c + prev.carry
                     m == Pow2(hi - lo + 1)
                 IN  [bits |-> BitsOf(t % m, hi - lo + 1) \o prev.bits,
                      carry |-> t \div m]
    IN  IntToBits(st[cnt].carry) \o st[cnt].bits

\* f * c for a small positive int c
FloatMul(f, c) == RoundToDouble(MulBits(f.m, c, 11), f.e, FALSE)

\* int(f), for f below 2^53
FloatTrunc(f) ==
    IF f.e >= 0 THEN BitsToInt(f.m) * Pow2(f.e)
    ELSE IF 0 - f.e >= DoubleBits THEN 0
         ELSE BitsToInt(SubSeq(f.m, 1, DoubleBits + f.e))

\* int((idx + 1) / len(jar_files) * 100), with k = idx + 1 and n = len(jar_files)
ProgressValue(k, n) == FloatTrunc(FloatMul(FloatDiv(k, n), 100))

----------------------------------------------------------------------------
(* The input directory, the output root and process_all_jars *)

JarExt == <<".", "j", "a", "r">>
TxtExt == <<".", "t", "x", "t">>

Digit == <<"0", "1", "2", "3", "4", "5", "6", "7", "8", "9">>

\* str(i), for i >= 1
RECURSIVE Dec(_)
Dec(i) == IF i < 10 THEN <<Digit[i + 1]>> ELSE Dec(i \div 10) \o <<Digit[(i % 10) + 1]>>

\* os.path.splitext(name)[0]: the name up to its last dot, a leading dot apart
SplitExtRoot(name) ==
    LET dots == { i \in DOMAIN name : name[i] = "." /\ i > 1 }
    IN  IF dots = {} THEN name
        ELSE SubSeq(name, 1, (CHOOSE i \in dots : \A j \in dots : j <= i) - 1)

\* file.endswith('.jar')
IsJarName(name) == EndsWith(name, JarExt)

\* [os.path.join(input_dir, file) for file in os.listdir(input_dir)
\*      if file.endswith('.jar')]
ListJars(children) ==
    LET Keep(child) == IsJarName(child.name)
    IN  SelectSeq(children, Keep)

\* os.path.isdir(input_dir)
InputIsDir(input) == input.kind = "dir"

\* the text of the status label
Status(text) == [text |-> text, done |-> 0, total |-> 0]
\* f"Processing: {idx + 1}/{len(jar_files)}"
StatusProgress(k, n) == [text |-> "Processing", done |-> k, total |-> n]

\* the archives an input directory may hold
PartlyTranslatedJar ==
    [corrupt |-> FALSE,
     entries |-> << [name |-> EnEntryName, bytes |-> Obj(<<KV(1, 1), KV(2, 2)>>)],
                    [name |-> RuEntryName, bytes |-> Obj(<<KV(1, 1)>>)] >>]
FullyTranslatedJar ==
    [corrupt |-> FALSE,
     entries |-> << [name |-> EnEntryName, bytes |-> Obj(<<KV(1, 1)>>)],
                    [name |-> RuEntryName, bytes |-> Obj(<<KV(1, 9)>>)] >>]
NoEnglishJar ==
    [corrupt |-> FALSE,
     entries |-> << [name |-> ClassEntryName, bytes |-> BadJson] >>]
EnglishOnlyJar ==
    [corrupt |-> FALSE,
     entries |-> << [name |-> EnEntryName, bytes |-> Obj(<<KV(1, 1)>>)] >>]
BadEnglishJar ==
    [corrupt |-> FALSE,
     entries |-> << [name |-> EnEntryName, bytes |-> BadJson],
                    [name |-> RuEntryName, bytes |-> Obj(<<KV(1, 1)>>)] >>]

BatchJars == {PartlyTranslatedJar, FullyTranslatedJar, NoEnglishJar,
              EnglishOnlyJar, BadEnglishJar, CorruptJar}

\* the i-th file of a listing: an archive m<i>.jar or a text file m<i>.txt
JarFile(i, jar) == [name |-> <<"m">> \o Dec(i) \o JarExt, content |-> jar]
TextFile(i) == [name |-> <<"m">> \o Dec(i) \o TxtExt, content |-> CorruptJar]

MixedListings ==
    UNION { { l \in [1..n -> [name : { <<"m">> \o Dec(i) \o x : i \in 1..n, x \in {JarExt, TxtExt} },
                              content : BatchJars]] :
                \A i \in 1..n : \/ l[i] = TextFile(i)
                                \/ \E jar \in BatchJars : l[i] = JarFile(i, jar) }
            : n \in 0..MaxJars }

AlikeListings ==
    { [i \in 1..n |-> JarFile(i, EnglishOnlyJar)] : n \in 1..MaxAlikeJars }

\* what an environment can make fail in one process_jar_file call of a batch
BatchFaults == {"none", "makedirs"}

\* the output root with no mod directory in it for the listed archives
FreshMods(children) ==
    [m \in { SplitExtRoot(children[i].name) : i \in DOMAIN children } |-> NoDir]

\* process_all_jars, lines 153-168: what it does before the loop
Validate(input, lang, has_vars) ==
    IF ~InputIsDir(input)
    THEN [pc |-> "returned", jar_files |-> <<>>,
          log |-> <<"error: not a directory">>, status |-> <<>>]
    ELSE LET jars == ListJars(input.children)
             l == <<"info: Scanning for JAR files", "info: Target language">>
         IN  IF jars = <<>>
             THEN [pc |-> "returned", jar_files |-> <<>>,
                   log |-> l \o <<"warning: No JAR files found">>,
                   status |-> IF has_vars THEN <<Status("No JAR files found")>> ELSE <<>>]
             ELSE [pc |-> "loop", jar_files |-> jars,
                   log |-> l \o <<"info: Found JAR files">>, status |-> <<>>]

\* process_all_jars, lines 171-178 and 183-186: one iteration of the loop,
\* with the handler that ends the run when process_jar_file raises
LoopStep(jars, i, mods, lang, fault, has_vars) ==
    LET jar == jars[i + 1]
        mod == SplitExtRoot(jar.name)
        r == ProcessJar(mods[mod], jar.content, lang, fault)
    IN  IF r.raised
        THEN [pc |-> "returned", idx |-> i, mods |-> mods,
              log |-> r.logs \o <<"error: Error during processing">>,
              progress |-> <<>>,
              status |-> IF has_vars THEN <<Status("Error")>> ELSE <<>>]
        ELSE [pc |-> "loop", idx |-> i + 1, mods |-> [mods EXCEPT ![mod] = r.dir],
              log |-> r.logs,
              progress |-> IF has_vars THEN <<ProgressValue(i + 1, Len(jars))>> ELSE <<>>,
              status |-> IF has_vars THEN <<StatusProgress(i + 1, Len(jars))>> ELSE <<>>]

\* a Tk variable after the given .set() calls
AfterSets(value, sets) == IF sets = <<>> THEN value ELSE sets[Len(sets)]

----------------------------------------------------------------------------
(* Specification of the entry scan *)

IdleScan ==
    /\ file_list = <<>>
    /\ target_lang = RuRu
    /\ scan_i = 1
    /\ en_us_path = NoPath
    /\ target_lang_path = NoPath

IdleDiff ==
    /\ en_us_data = <<>>
    /\ target_lang_data = <<>>
    /\ cmp_i = 1
    /\ missing_translations = <<>>

NoCall == [made |-> FALSE, target_lang |-> RuRu, fault |-> "none",
           before |-> NoDir, raised |-> FALSE]

IdleJar ==
    /\ mod_jar = CorruptJar
    /\ mod_dir = NoDir
    /\ call = NoCall

NoExit == <<>>

IdleBatch ==
    /\ args = [mode |-> "cli", lang |-> RuRu]
    /\ input_dir = [kind |-> "missing", children |-> <<>>]
    /\ output_dir = [exists |-> FALSE, creatable |-> TRUE, mods |-> <<>>]
    /\ pc = "idle"
    /\ jar_files = <<>>
    /\ idx = 0
    /\ invoked = <<>>
    /\ progress_var = 0
    /\ status_var = Status("Ready")
    /\ log = <<>>
    /\ exit_code = NoExit

IdleGui ==
    /\ threads = <<>>
    /\ clicks = 0
    /\ after_queue = <<>>
    /\ text_widget = <<>>
    /\ touched = {}

InitScan ==
    /\ file_list \in SeqsUpTo(ScanNames, ScanMaxEntries)
    /\ target_lang \in ScanLangs
    /\ scan_i = 1
    /\ en_us_path = NoPath
    /\ target_lang_path = NoPath
    /\ IdleDiff
    /\ IdleJar
    /\ IdleBatch
    /\ IdleGui

ScanNext ==
    /\ scan_i <= Len(file_list)
    /\ LET p == ScanStep([en_us_path |-> en_us_path,
                          target_lang_path |-> target_lang_path],
                         file_list[scan_i], target_lang)
       IN  /\ en_us_path' = p.en_us_path
           /\ target_lang_path' = p.target_lang_path
    /\ scan_i' = scan_i + 1
    /\ UNCHANGED <<file_list, target_lang, diffVars, jarVars, batchVars, guiVars>>

NextScan == ScanNext

SpecScan == InitScan /\ [][NextScan]_vars

ScanDone == scan_i = Len(file_list) + 1

----------------------------------------------------------------------------
(* Specification of the key comparison *)

InitDiff ==
    /\ en_us_data \in Mappings(DiffKeys, DiffVals)
    /\ target_lang_data \in Mappings(DiffKeys, DiffVals)
    /\ cmp_i = 1
    /\ missing_translations = <<>>
    /\ IdleScan
    /\ IdleJar
    /\ IdleBatch
    /\ IdleGui

CompareNext ==
    /\ cmp_i <= Len(en_us_data)
    /\ missing_translations' =
          CompareStep(missing_translations, en_us_data[cmp_i], target_lang_data)
    /\ cmp_i' = cmp_i + 1
    /\ UNCHANGED <<en_us_data, target_lang_data, scanVars, jarVars, batchVars, guiVars>>

NextDiff == CompareNext

SpecDiff == InitDiff /\ [][NextDiff]_vars

CompareDone == cmp_i = Len(en_us_data) + 1

----------------------------------------------------------------------------
(* Specification of process_jar_file on one mod's output directory: any   *)
(* sequence of runs over the same output root, each with any target        *)
(* language and any fault                                                  *)

\* the mod as an earlier release shipped it: partly translated to French
OlderJar ==
    [corrupt |-> FALSE,
     entries |-> << [name |-> EnEntryName, bytes |-> Obj(<<KV(1, 1), KV(2, 2)>>)],
                    [name |-> FrEntryName, bytes |-> Obj(<<KV(1, 1)>>)] >>]

\* the mod's output directory when the runs begin: absent, or as a run on
\* the earlier release left it
InitialDirs == {NoDir, ProcessJar(NoDir, OlderJar, FrFr, "none").dir}

InitJar ==
    /\ mod_jar \in JarArchives
    /\ mod_dir \in InitialDirs
    /\ call = NoCall
    /\ IdleScan
    /\ IdleDiff
    /\ IdleBatch
    /\ IdleGui

ProcessJarFile ==
    \E lang \in JarLangs, fault \in JarFaults :
        LET r == ProcessJar(mod_dir, mod_jar, lang, fault)
        IN  /\ mod_dir' = r.dir
            /\ call' = [made |-> TRUE, target_lang |-> lang, fault |-> fault,
                        before |-> mod_dir, raised |-> r.raised]
            /\ UNCHANGED <<mod_jar, scanVars, diffVars, batchVars, guiVars>>

NextJar == ProcessJarFile

SpecJar == InitJar /\ [][NextJar]_vars

----------------------------------------------------------------------------
(* Specification of a batch run: main_cli, or one "Start Processing" of   *)
(* the interactive front end with its worker thread                        *)

HasVars == args.mode = "gui"

Init ==
    /\ args \in [mode : {"cli", "gui"}, lang : JarLangs]
    /\ input_dir \in
          ([kind : {"dir"}, children : MixedListings \cup AlikeListings]
             \cup [kind : {"empty", "missing", "file"}, children : {<<>>}])
    /\ args.mode = "cli" => input_dir.kind # "empty"
    /\ output_dir \in [exists : {FALSE}, creatable : BOOLEAN,
                       mods : {FreshMods(input_dir.children)}]
    /\ pc = "start"
    /\ jar_files = <<>>
    /\ idx = 0
    /\ invoked = <<>>
    /\ progress_var = 0
    /\ status_var = Status("Ready")
    /\ log = <<>>
    /\ exit_code = NoExit
    /\ IdleScan
    /\ IdleDiff
    /\ IdleJar
    /\ IdleGui

\* main_cli, lines 416-421; an OSError from os.makedirs is not caught and
\* ends the process with status 1
MainCli ==
    /\ pc = "start"
    /\ args.mode = "cli"
    /\ \/ /\ output_dir.creatable
          /\ output_dir' = [output_dir EXCEPT !.exists = TRUE]
          /\ pc' = "validate"
          /\ UNCHANGED exit_code
       \/ /\ ~output_dir.creatable
          /\ pc' = "exited"
          /\ exit_code' = <<1>>
          /\ UNCHANGED output_dir
    /\ UNCHANGED <<args, input_dir, jar_files, idx, invoked, log,
                   progress_var, status_var, scanVars, diffVars, jarVars, guiVars>>

\* start_processing, lines 358-383
StartProcessing ==
    /\ pc = "start"
    /\ args.mode = "gui"
    /\ \/ /\ input_dir.kind \in {"empty", "missing"}
          /\ pc' = "refused"
          /\ UNCHANGED <<output_dir, progress_var, status_var>>
       \/ /\ input_dir.kind \in {"file", "dir"}
          /\ ~output_dir.creatable
          /\ pc' = "refused"
          /\ UNCHANGED <<output_dir, progress_var, status_var>>
       \/ /\ input_dir.kind \in {"file", "dir"}
          /\ output_dir.creatable
          /\ output_dir' = [output_dir EXCEPT !.exists = TRUE]
          /\ progress_var' = 0
          /\ status_var' = Status("Starting...")
          /\ pc' = "validate"
    /\ UNCHANGED <<args, input_dir, jar_files, idx, invoked, log, exit_code,
                   scanVars, diffVars, jarVars, guiVars>>

\* process_all_jars up to the loop
ValidateInput ==
    /\ pc = "validate"
    /\ LET v == Validate(input_dir, args.lang, HasVars)
       IN  /\ pc' = v.pc
           /\ jar_files' = v.jar_files
           /\ log' = log \o v.log
           /\ status_var' = AfterSets(status_var, v.status)
    /\ UNCHANGED <<args, input_dir, output_dir, idx, invoked, progress_var,
                   exit_code, scanVars, diffVars, jarVars, guiVars>>

\* one iteration of the loop of process_all_jars
ProcessNextJar ==
    /\ pc = "loop"
    /\ idx < Len(jar_files)
    /\ \E fault \in BatchFaults :
          LET r == LoopStep(jar_files, idx, output_dir.mods, args.lang, fault, HasVars)
          IN  /\ pc' = r.pc
              /\ idx' = r.idx
              /\ invoked' = Append(invoked, jar_files[idx + 1].name)
              /\ output_dir' = [output_dir EXCEPT !.mods = r.mods]
              /\ log' = log \o r.log
              /\ progress_var' = AfterSets(progress_var, r.progress)
              /\ status_var' = AfterSets(status_var, r.status)
    /\ UNCHANGED <<args, input_dir, jar_files, exit_code, scanVars, diffVars, jarVars, guiVars>>

\* process_all_jars, lines 180-182
CompleteRun ==
    /\ pc = "loop"
    /\ idx = Len(jar_files)
    /\ pc' = "returned"
    /\ log' = Append(log, "info: All processing completed.")
    /\ status_var' = IF HasVars THEN Status("Processing complete") ELSE status_var
    /\ UNCHANGED <<args, input_dir, output_dir, jar_files, idx, invoked,
                   progress_var, exit_code, scanVars, diffVars, jarVars, guiVars>>

\* main_cli returns and the interpreter exits
ExitCli ==
    /\ pc = "returned"
    /\ args.mode = "cli"
    /\ pc' = "exited"
    /\ exit_code' = <<0>>
    /\ UNCHANGED <<args, input_dir, output_dir, jar_files, idx, invoked, log,
                   progress_var, status_var, scanVars, diffVars, jarVars, guiVars>>

Next ==
    \/ MainCli
    \/ StartProcessing
    \/ ValidateInput
    \/ ProcessNextJar
    \/ CompleteRun
    \/ ExitCli

Spec == Init /\ [][Next]_vars

----------------------------------------------------------------------------
(* Specification of the interactive front end: the GUI thread handles     *)
(* "Start Processing" clicks and runs the callbacks scheduled with         *)
(* after(); every accepted click starts a thread that runs                 *)
(* process_all_jars. A process_jar_file call is taken as one step.         *)

GuiListings ==
    UNION { { l \in [1..n -> [name : { <<"m">> \o Dec(i) \o x : i \in 1..n, x \in {JarExt, TxtExt} },
                              content : BatchJars]] :
                \A i \in 1..n : \/ l[i] = TextFile(i)
                                \/ l[i] = JarFile(i, PartlyTranslatedJar) }
            : n \in 0..MaxJars }

GuiThread == <<"gui", 0>>
WorkerThread(w) == <<"worker", w>>

\* the thread by changes the piece of UI state what
Touch(by, what) == [by |-> by, what |-> what]

Touches(by, progress, status) ==
    { Touch(by, "progress_var") : x \in DOMAIN progress }
        \cup { Touch(by, "status_var") : x \in DOMAIN status }

InitGui ==
    /\ args \in [mode : {"gui"}, lang : JarLangs]
    /\ input_dir \in
          ([kind : {"dir"}, children : GuiListings]
             \cup [kind : {"empty", "missing", "file"}, children : {<<>>}])
    /\ output_dir \in [exists : {FALSE}, creatable : BOOLEAN,
                       mods : {FreshMods(input_dir.children)}]
    /\ pc = "idle"
    /\ jar_files = <<>>
    /\ idx = 0
    /\ invoked = <<>>
    /\ progress_var = 0
    /\ status_var = Status("Ready")
    /\ log = <<>>
    /\ exit_code = NoExit
    /\ IdleGui
    /\ IdleScan
    /\ IdleDiff
    /\ IdleJar

\* start_processing, lines 356-383, run by the GUI thread on a click
ClickStart ==
    /\ clicks < MaxStarts
    /\ clicks' = clicks + 1
    /\ IF input_dir.kind \in {"empty", "missing"} \/ ~output_dir.creatable
       THEN UNCHANGED <<output_dir, progress_var, status_var, threads, touched>>
       ELSE /\ output_dir' = [output_dir EXCEPT !.exists = TRUE]
            /\ progress_var' = 0
            /\ status_var' = Status("Starting...")
            /\ touched' = touched \cup {Touch(GuiThread, "progress_var"),
                                        Touch(GuiThread, "status_var")}
            /\ threads' = Append(threads, [pc |-> "validate", jar_files |-> <<>>,
                                           idx |-> 0, invoked |-> <<>>])
    /\ UNCHANGED <<args, input_dir, runVars, after_queue, text_widget,
                   scanVars, diffVars, jarVars>>

\* process_all_jars up to the loop, run by worker thread w; the records it
\* logs go through LogHandler.emit, which schedules their display
WorkerValidate(w) ==
    /\ threads[w].pc = "validate"
    /\ LET v == Validate(input_dir, args.lang, TRUE)
       IN  /\ threads' = [threads EXCEPT ![w].pc = v.pc, ![w].jar_files = v.jar_files]
           /\ after_queue' = after_queue \o v.log
           /\ status_var' = AfterSets(status_var, v.status)
           /\ touched' = touched \cup Touches(WorkerThread(w), <<>>, v.status)
    /\ UNCHANGED <<args, input_dir, output_dir, runVars, progress_var, clicks,
                   text_widget, scanVars, diffVars, jarVars>>

\* one iteration of the loop of process_all_jars, run by worker thread w
WorkerProcessNextJar(w) ==
    /\ threads[w].pc = "loop"
    /\ threads[w].idx < Len(threads[w].jar_files)
    /\ \E fault \in BatchFaults :
          LET t == threads[w]
              r == LoopStep(t.jar_files, t.idx, output_dir.mods, args.lang, fault, TRUE)
          IN  /\ threads' = [threads EXCEPT
                                ![w].pc = r.pc, ![w].idx = r.idx,
                                ![w].invoked = Append(t.invoked, t.jar_files[t.idx + 1].name)]
              /\ output_dir' = [output_dir EXCEPT !.mods = r.mods]
              /\ after_queue' = after_queue \o r.log
              /\ progress_var' = AfterSets(progress_var, r.progress)
              /\ status_var' = AfterSets(status_var, r.status)
              /\ touched' = touched \cup Touches(WorkerThread(w), r.progress, r.status)
    /\ UNCHANGED <<args, input_dir, runVars, clicks, text_widget,
                   scanVars, diffVars, jarVars>>

\* process_all_jars, lines 180-182, run by worker thread w
WorkerComplete(w) ==
    /\ threads[w].pc = "loop"
    /\ threads[w].idx = Len(threads[w].jar_files)
    /\ threads' = [threads EXCEPT ![w].pc = "returned"]
    /\ after_queue' = Append(after_queue, "info: All processing completed.")
    /\ status_var' = Status("Processing complete")
    /\ touched' = touched \cup {Touch(WorkerThread(w), "status_var")}
    /\ UNCHANGED <<args, input_dir, output_dir, runVars, progress_var, clicks,
                   text_widget, scanVars, diffVars, jarVars>>

\* the append() callback of LogHandler.emit, run by the GUI thread
RunScheduledAppend ==
    /\ after_queue # <<>>
    /\ text_widget' = Append(text_widget, Head(after_queue))
    /\ after_queue' = Tail(after_queue)
    /\ touched' = touched \cup {Touch(GuiThread, "text_widget")}
    /\ UNCHANGED <<batchVars, threads, clicks, scanVars, diffVars, jarVars>>

NextGui ==
    \/ ClickStart
    \/ \E w \in DOMAIN threads : WorkerValidate(w)
    \/ \E w \in DOMAIN threads : WorkerProcessNextJar(w)
    \/ \E w \in DOMAIN threads : WorkerComplete(w)
    \/ RunScheduledAppend

SpecGui == InitGui /\ [][NextGui]_vars

----------------------------------------------------------------------------
(* Properties of the entry scan (SpecScan) *)

\* the last listed name with the given suffix, NoPath when there is none
LastEndingWith(names, suffix) ==
    LET idxs == { i \in DOMAIN names : EndsWith(names[i], suffix) }
    IN  IF idxs = {} THEN NoPath
        ELSE names[CHOOSE i \in idxs : \A j \in idxs : j <= i]

\* the last listed name with the given suffix that is not an English entry
LastTargetEntry(names, lang) ==
    LET idxs == { i \in DOMAIN names : /\ EndsWith(names[i], LangJson(lang))
                                       /\ ~EndsWith(names[i], EnUsJson) }
    IN  IF idxs = {} THEN NoPath
        ELSE names[CHOOSE i \in idxs : \A j \in idxs : j <= i]

\* C10 as stated: when the scan ends, the English entry is the last listed
\* entry ending with en_us.json and the target entry is the last listed entry
\* ending with <target_lang>.json, each absent exactly when no listed entry
\* has that suffix.
C10_LastSuffixMatchWins ==
    ScanDone =>
        /\ en_us_path = LastEndingWith(file_list, EnUsJson)
        /\ target_lang_path = LastEndingWith(file_list, LangJson(target_lang))

\* C10 amended: when the scan ends, the English entry is the last listed
\* entry ending with en_us.json, and the target entry is the last listed
\* entry that ends with <target_lang>.json and does not end with en_us.json;
\* each is absent exactly when no listed entry qualifies.
C10_LastNonEnglishMatchWins ==
    ScanDone =>
        /\ en_us_path = LastEndingWith(file_list, EnUsJson)
        /\ target_lang_path = LastTargetEntry(file_list, target_lang)
        /\ (en_us_path = NoPath) =
              (\A i \in DOMAIN file_list : ~EndsWith(file_list[i], EnUsJson))
        /\ (target_lang_path = NoPath) =
              (\A i \in DOMAIN file_list :
                  \/ ~EndsWith(file_list[i], LangJson(target_lang))
                  \/ EndsWith(file_list[i], EnUsJson))

\* a finished scan of a listing with two different target entries and two
\* different English entries, the later of each retained
C10_Witness ==
    /\ ScanDone
    /\ \E i, j \in DOMAIN file_list :
          /\ i < j
          /\ file_list[i] # file_list[j]
          /\ EndsWith(file_list[i], LangJson(target_lang))
          /\ EndsWith(file_list[j], LangJson(target_lang))
          /\ ~EndsWith(file_list[j], EnUsJson)
          /\ target_lang_path = file_list[j]
    /\ en_us_path # NoPath

----------------------------------------------------------------------------
(* Properties of the key comparison (SpecDiff) *)

\* C1: when the comparison ends, missing_translations holds exactly the
\* items of the English mapping whose key is not a key of the target mapping,
\* with the English values, in the English mapping's order; it is the English
\* mapping itself when the target is empty and empty when the English one is.
C1_MissingIsOrderedDifference ==
    CompareDone =>
        LET Absent(item) == item.key \notin Keys(target_lang_data)
        IN  /\ missing_translations = SelectSeq(en_us_data, Absent)
            /\ Keys(missing_translations) = Keys(en_us_data) \ Keys(target_lang_data)
            /\ \A i \in DOMAIN missing_translations :
                  \E j \in DOMAIN en_us_data : missing_translations[i] = en_us_data[j]
            /\ (target_lang_data = <<>> => missing_translations = en_us_data)
            /\ (en_us_data = <<>> => missing_translations = <<>>)

\* a finished comparison where one English key is translated with another
\* value and a different English key is missing
C1_Witness ==
    /\ CompareDone
    /\ Len(en_us_data) = 2
    /\ Len(missing_translations) = 1
    /\ \E i \in DOMAIN en_us_data, j \in DOMAIN target_lang_data :
          /\ en_us_data[i].key = target_lang_data[j].key
          /\ en_us_data[i].value # target_lang_data[j].value

----------------------------------------------------------------------------
(* Properties of process_jar_file (SpecJar) *)

JarHasEnglish(archive) ==
    \E i \in DOMAIN archive.entries : EndsWith(archive.entries[i].name, EnUsJson)

\* an entry for the target language: one the scan does not take as English
JarHasTarget(archive, lang) ==
    \E i \in DOMAIN archive.entries :
        /\ EndsWith(archive.entries[i].name, LangJson(lang))
        /\ ~EndsWith(archive.entries[i].name, EnUsJson)

EnglishBytes(archive) ==
    JarRead(archive, LastEndingWith(NameList(archive), EnUsJson))

TargetBytes(archive, lang) ==
    JarRead(archive, LastTargetEntry(NameList(archive), lang))

\* the call returned, and nothing failed in the filesystem
ReturnedCleanly == call.made /\ ~call.raised /\ call.fault = "none"

BothParse ==
    /\ ~mod_jar.corrupt
    /\ JarHasEnglish(mod_jar)
    /\ JarHasTarget(mod_jar, call.target_lang)
    /\ EnglishBytes(mod_jar).json
    /\ TargetBytes(mod_jar, call.target_lang).json

AbsentKeys ==
    Keys(EnglishBytes(mod_jar).data) \ Keys(TargetBytes(mod_jar, call.target_lang).data)

ExpectedDiff ==
    LET Absent(item) == item.key \notin Keys(TargetBytes(mod_jar, call.target_lang).data)
    IN  SelectSeq(EnglishBytes(mod_jar).data, Absent)

\* C2: after a call that returned, on an archive whose English and target
\* entries both parse, diff.json is in the mod's directory exactly when some
\* English key is absent from the target mapping; it then sits beside
\* en_us.json and <lang>.json, copies of the two entries, and holds their diff.
C2_DiffJsonIffMissingKeys ==
    (ReturnedCleanly /\ BothParse) =>
        /\ (DiffJson \in DOMAIN mod_dir.files) = (AbsentKeys # {})
        /\ AbsentKeys # {} =>
              /\ mod_dir.exists
              /\ EnUsJson \in DOMAIN mod_dir.files
              /\ LangJson(call.target_lang) \in DOMAIN mod_dir.files
              /\ mod_dir.files[EnUsJson] = EnglishBytes(mod_jar)
              /\ mod_dir.files[LangJson(call.target_lang)] =
                    TargetBytes(mod_jar, call.target_lang)
              /\ mod_dir.files[DiffJson] = Obj(ExpectedDiff)

\* such a call that replaced an older diff.json by a different one
C2_Witness ==
    /\ ReturnedCleanly
    /\ BothParse
    /\ AbsentKeys # {}
    /\ DiffJson \in DOMAIN call.before.files
    /\ DiffJson \in DOMAIN mod_dir.files
    /\ mod_dir.files[DiffJson] # call.before.files[DiffJson]

\* C3: after a call that returned, on an archive with no entry ending in
\* en_us.json, or with both entries parsed and every English key present in
\* the target mapping, the mod's directory does not exist, whatever it held
\* before the call.
C3_NoDirectoryLeft ==
    (/\ call.made
     /\ ~call.raised
     /\ ~mod_jar.corrupt
     /\ \/ ~JarHasEnglish(mod_jar)
        \/ ReturnedCleanly /\ BothParse /\ AbsentKeys = {})
    => ~mod_dir.exists

\* a fully translated archive (one value differs) whose directory held files
\* before the call and is gone after it
C3_Witness ==
    /\ ReturnedCleanly
    /\ BothParse
    /\ AbsentKeys = {}
    /\ EnglishBytes(mod_jar).data # <<>>
    /\ EnglishBytes(mod_jar).data # TargetBytes(mod_jar, call.target_lang).data
    /\ call.before.exists
    /\ DOMAIN call.before.files # {}
    /\ ~mod_dir.exists

\* C4 as stated: after a call that returned, on an archive with an English
\* entry and no entry for the target language, the mod's directory holds
\* en_us.json and nothing else, whatever earlier runs left there.
C4_OnlyEnglishFileLeft ==
    (/\ ReturnedCleanly
     /\ ~mod_jar.corrupt
     /\ JarHasEnglish(mod_jar)
     /\ ~JarHasTarget(mod_jar, call.target_lang))
    => /\ mod_dir.exists
       /\ DOMAIN mod_dir.files = {EnUsJson}

----------------------------------------------------------------------------
(* Properties of a batch run (Spec) *)

JarNames == [i \in DOMAIN jar_files |-> jar_files[i].name]

\* C5: a run that found archives invokes process_jar_file once on each, in
\* listing order, whatever fails inside a call, and ends by logging
\* "All processing completed."
C5_EveryArchiveProcessed ==
    (pc \in {"returned", "exited"} /\ jar_files # <<>>)
        => /\ invoked = JarNames
           /\ log[Len(log)] = "info: All processing completed."

\* C6: a command-line run that got to process_all_jars ends with exit code 1
\* and no archive processed when the input path is not a directory, and with
\* exit code 0 in every other case
C6_ExitCodeTellsBadInput ==
    (args.mode = "cli" /\ pc = "exited" /\ output_dir.exists)
        => IF InputIsDir(input_dir)
           THEN exit_code = <<0>>
           ELSE exit_code = <<1>> /\ invoked = <<>>

\* C7: with the variables supplied, after the k-th of n archives the status
\* reads k/n and the progress value is the integer part of 100 * k / n
C7_ProgressIsIntegerPercent ==
    (HasVars /\ pc = "loop" /\ idx >= 1)
        => /\ status_var = StatusProgress(idx, Len(jar_files))
           /\ progress_var = (100 * idx) \div Len(jar_files)

----------------------------------------------------------------------------
(* Properties of the interactive front end (SpecGui) *)

ActiveThreads == { w \in DOMAIN threads : threads[w].pc # "returned" }

\* C8: at most one worker thread is running process_all_jars at any time
C8_AtMostOneActiveRun == Cardinality(ActiveThreads) <= 1

\* C9: the progress variable, the status variable and the log widget are
\* changed by the GUI thread only
C9_UiTouchedByGuiThreadOnly == \A t \in touched : t.by = GuiThread

====
